---- MODULE Spec2Model ----
(***************************************************************************)
(* gs_quant.markets.core: PricingCache and PricingContext.                 *)
(*                                                                         *)
(* One calling thread issues the public operations (entering and leaving   *)
(* a context, calc, dropping an instrument from the cache); every          *)
(* run_requests started by a flush is a job that runs on its own: on a     *)
(* pool worker when the flush built a ThreadPoolExecutor, in the calling   *)
(* thread otherwise.  A job takes two steps: the provider call (lines      *)
(* 152-159, no lock held) and the finally block (lines 160-167, under the  *)
(* context lock).                                                          *)
(***************************************************************************)
EXTENDS Integers, Sequences, FiniteSets, TLC

VARIABLES
    config,        \* per context: the constructor arguments (lines 127-135)
    scenarioPath,  \* Scenario.path, innermost last
    path,          \* PricingContext.path: the entered contexts, innermost last
    pending,       \* per context: __pending, an insertion-ordered dict
    cache,         \* PricingCache.__cache: priceable -> (risk key -> result)
    futs,          \* every PricingFuture created so far, by identity
    jobs,          \* every run_requests call started so far
    nwaves,        \* number of flushes that dispatched
    waiting,       \* what the calling thread is blocked in, if anything
    ret,           \* what the last operation on a context returned: for calc the
                   \* future, and how calc came by it
    surfaced,      \* the exception the last operation of the calling thread raised
    resolvedOk,    \* history: the pairs a caching flush resolved with a value
                   \* under a market that is not live, since the last drop
    lastPut        \* history: the last put of CacheSpec, with get before and after

vars == <<config, scenarioPath, path, pending, cache, futs, jobs, nwaves,
          waiting, ret, surfaced, resolvedOk, lastPut>>

(***************************************************************************)
(* Bounds.                                                                 *)
(***************************************************************************)
MaxFutures == 2     \* PricingFuture objects created in one behaviour
MaxWaves == 2       \* flushes that find something pending in one behaviour
MaxGroupPending == 4 \* pending entries registered before the flush of GroupSpec
MaxCoverPending == 4 \* pending entries registered before the flush of CoverSpec

(***************************************************************************)
(* The collaborators' values.                                              *)
(***************************************************************************)
Ctx == {"c1", "c2"}
Priceables == {"p1", "p2", "p3"}
Providers == {"A", "B"}
Measures == {1, 2}
Dates == {1, 2}
Markets == {"Close", "Live"}
CsaTerms == {"x", "y"}
Scenarios == {"s1", "s2"}

\* Priceable.provider()
ProviderOf(p) == IF p = "p3" THEN "B" ELSE "A"

\* isinstance(market, LiveMarket)
IsLive(market) == market = "Live"

\* the order sorted() finds between two markets
MarketRank(market) == IF market = "Close" THEN 0 ELSE 1

(***************************************************************************)
(* Results.  A provider value is identified by what it was computed for.   *)
(***************************************************************************)
Unset == [kind |-> "unset"]
ErrorValue == [kind |-> "ErrorValue"]
ProviderError == [kind |-> "Exception"]
ValueOf(rk, p) == [kind |-> "value", p |-> p, m |-> rk.risk_measure, d |-> rk.date]

\* isinstance(result, ErrorValue)
IsErrorValue(v) == v.kind = "ErrorValue"

(***************************************************************************)
(* Sequences as Python's insertion-ordered collections.                    *)
(***************************************************************************)
Range(s) == {s[i] : i \in 1..Len(s)}

Contains(s, x) == \E i \in 1..Len(s) : s[i] = x

\* the distinct elements of s in the order of their first occurrence:
\* the key order of a dict filled by setdefault
RECURSIVE Distinct(_)
Distinct(s) ==
    IF s = <<>> THEN <<>>
    ELSE LET d == Distinct(SubSeq(s, 1, Len(s) - 1))
         IN IF Contains(d, s[Len(s)]) THEN d ELSE Append(d, s[Len(s)])

RECURSIVE Flatten(_)
Flatten(ss) == IF ss = <<>> THEN <<>> ELSE Head(ss) \o Flatten(Tail(ss))

\* tuple comparison of (date, market)
DateMarketLess(a, b) ==
    \/ a[1] < b[1]
    \/ a[1] = b[1] /\ MarketRank(a[2]) < MarketRank(b[2])

\* tuple(sorted(risk_measures)), line 186
RECURSIVE SortedMeasures(_)
SortedMeasures(S) ==
    IF S = {} THEN <<>>
    ELSE LET least == CHOOSE x \in S : \A y \in S \ {x} : x < y
         IN <<least>> \o SortedMeasures(S \ {least})

\* sorted(dates_markets), line 203
RECURSIVE SortedDatesMarkets(_)
SortedDatesMarkets(S) ==
    IF S = {} THEN <<>>
    ELSE LET least == CHOOSE x \in S : \A y \in S \ {x} : DateMarketLess(x, y)
         IN <<least>> \o SortedDatesMarkets(S \ {least})

(***************************************************************************)
(* PricingContext: configuration and risk keys.                            *)
(***************************************************************************)
Context(is_async, use_cache, pricing_date, market, csa_term) ==
    [is_async |-> is_async, use_cache |-> use_cache, pricing_date |-> pricing_date,
     market |-> market, csa_term |-> csa_term]

\* PricingContext.__parameters
Parameters(c) == [csa_term |-> config[c].csa_term, raw_results |-> TRUE]

\* PricingContext.__scenario
ContextScenario ==
    IF scenarioPath = <<>> THEN [kind |-> "None"]
    ELSE IF Len(scenarioPath) = 1
         THEN [kind |-> "MarketDataScenario", scenario |-> <<scenarioPath[1]>>]
         ELSE [kind |-> "MarketDataScenario",
               scenario |-> [i \in 1..Len(scenarioPath) |->
                                 scenarioPath[Len(scenarioPath) + 1 - i]]]

\* PricingContext.__risk_key
RiskKey(c, risk_measure, provider) ==
    [provider |-> provider, date |-> config[c].pricing_date, market |-> config[c].market,
     params |-> Parameters(c), scenario |-> ContextScenario, risk_measure |-> risk_measure]

\* ContextBase.is_entered
IsEntered(c) == Contains(path, c)

\* active_context that is always the context calc was invoked on
ActiveContextSelf(c) == c

\* PricingContext.active_context: the innermost entered context, else self
ActiveContext(c) == IF path = <<>> THEN c ELSE path[Len(path)]

(***************************************************************************)
(* PricingCache.  cache[p] is the inner dict of priceable p, as the set of *)
(* its (risk key, result) items; a priceable with no inner dict has {}.    *)
(***************************************************************************)
NoResult == [kind |-> "None"]

\* PricingCache.get
CacheGet(ch, risk_key, priceable) ==
    IF \E it \in ch[priceable] : it.rk = risk_key
    THEN (CHOOSE it \in ch[priceable] : it.rk = risk_key).v
    ELSE NoResult

\* put that stores error values too (line 59 without the ErrorValue test)
CachePutNoErrorCheck(ch, risk_key, priceable, result) ==
    IF ~IsLive(risk_key.market)
    THEN [ch EXCEPT ![priceable] =
              {it \in @ : it.rk # risk_key} \cup {[rk |-> risk_key, v |-> result]}]
    ELSE ch

\* PricingCache.put
CachePut(ch, risk_key, priceable, result) ==
    IF ~IsErrorValue(result) /\ ~IsLive(risk_key.market)
    THEN [ch EXCEPT ![priceable] =
              {it \in @ : it.rk # risk_key} \cup {[rk |-> risk_key, v |-> result]}]
    ELSE ch

\* PricingCache.drop
CacheDrop(ch, priceable) == [ch EXCEPT ![priceable] = {}]

\* PricingCache.clear: the assignment binds a local name, the class attribute stays
CacheClear(ch) == ch

(***************************************************************************)
(* __calc, lines 169-207: grouping the pending keys into requests.         *)
(* pend is the pending dict as the sequence of its items.                  *)
(***************************************************************************)
PendingIndex(pend, risk_key, priceable) ==
    IF \E i \in 1..Len(pend) : pend[i].rk = risk_key /\ pend[i].p = priceable
    THEN CHOOSE i \in 1..Len(pend) : pend[i].rk = risk_key /\ pend[i].p = priceable
    ELSE 0

\* the providers in requests_by_provider, in key order
ProvidersIn(pend) == Distinct([i \in 1..Len(pend) |-> pend[i].rk.provider])

ForProvider(pend, provider) == SelectSeq(pend, LAMBDA e : e.rk.provider = provider)

\* (key.params, key.scenario, key.date, key.market), line 173
GroupKey(e) == [params |-> e.rk.params, scenario |-> e.rk.scenario,
                date |-> e.rk.date, market |-> e.rk.market]

\* requests_by_provider[provider]: its keys, and per key the priceables in key
\* order with the set of measures of each
GroupsOf(pe) == Distinct([i \in 1..Len(pe) |-> GroupKey(pe[i])])

PriceablesOf(pe, g) ==
    LET sel == SelectSeq(pe, LAMBDA e : GroupKey(e) = g)
    IN Distinct([i \in 1..Len(sel) |-> sel[i].p])

MeasuresOf(pe, g, p) ==
    {e.rk.risk_measure : e \in {x \in Range(pe) : GroupKey(x) = g /\ x.p = p}}

\* the measures of priceable p under key g in the order of their registration
MeasuresInOrder(pe, g, p) ==
    LET sel == SelectSeq(pe, LAMBDA e : GroupKey(e) = g /\ e.p = p)
    IN Distinct([i \in 1..Len(sel) |-> sel[i].rk.risk_measure])

\* lines 184-187 with tuple(risk_measures) in place of tuple(sorted(risk_measures))
SignatureItemsUnsorted(pe) ==
    LET gs == GroupsOf(pe)
    IN Flatten([i \in 1..Len(gs) |->
           LET ps == PriceablesOf(pe, gs[i])
           IN [j \in 1..Len(ps) |->
                  [sig |-> [params |-> gs[i].params, scenario |-> gs[i].scenario,
                            date |-> gs[i].date, market |-> gs[i].market,
                            risk_measures |-> MeasuresInOrder(pe, gs[i], ps[j])],
                   p |-> ps[j]]]])

\* lines 184-187: one (key, priceable) item per iteration of the two loops
SignatureItems(pe) ==
    LET gs == GroupsOf(pe)
    IN Flatten([i \in 1..Len(gs) |->
           LET ps == PriceablesOf(pe, gs[i])
           IN [j \in 1..Len(ps) |->
                  [sig |-> [params |-> gs[i].params, scenario |-> gs[i].scenario,
                            date |-> gs[i].date, market |-> gs[i].market,
                            risk_measures |-> SortedMeasures(MeasuresOf(pe, gs[i], ps[j]))],
                   p |-> ps[j]]]])

\* requests_for_provider: its keys in order, and the list under a key
RequestsForProviderKeys(pe) ==
    LET items == SignatureItems(pe)
    IN Distinct([i \in 1..Len(items) |-> items[i].sig])

RequestsForProvider(pe, sig) ==
    LET sel == SelectSeq(SignatureItems(pe), LAMBDA it : it.sig = sig)
    IN [i \in 1..Len(sel) |-> sel[i].p]

\* lines 190-193: the key of requests_by_date_market a signature falls under
DateMarketKey(pe, sig) ==
    [params |-> sig.params, scenario |-> sig.scenario,
     risk_measures |-> sig.risk_measures, priceables |-> RequestsForProvider(pe, sig)]

RequestsByDateMarketKeys(pe) ==
    LET ks == RequestsForProviderKeys(pe)
    IN Distinct([i \in 1..Len(ks) |-> DateMarketKey(pe, ks[i])])

\* lines 190-193 with the key of requests_by_date_market lacking tuple(priceables)
RequestsByDateMarketAnyPriceables(pe, k) ==
    {<<sig.date, sig.market>> :
        sig \in {s \in Range(RequestsForProviderKeys(pe)) :
                    /\ s.params = k.params /\ s.scenario = k.scenario
                    /\ s.risk_measures = k.risk_measures}}

RequestsByDateMarket(pe, k) ==
    {<<sig.date, sig.market>> :
        sig \in {s \in Range(RequestsForProviderKeys(pe)) : DateMarketKey(pe, s) = k}}

\* lines 195-207: the RiskRequest of one key of requests_by_date_market.
\* group_params is not a field of RiskRequest: it records the params of the
\* key the request was built for, which the comprehension binds and drops.
RiskRequest(c, pe, k) ==
    [positions |-> k.priceables,
     measures |-> k.risk_measures,
     parameters |-> Parameters(c),
     scenario |-> k.scenario,
     pricing_and_market_data_as_of |-> SortedDatesMarkets(RequestsByDateMarket(pe, k)),
     group_params |-> k.params]

\* the requests list of one provider
Requests(c, pend, provider) ==
    LET pe == ForProvider(pend, provider)
        ks == RequestsByDateMarketKeys(pe)
    IN <<>> \o [i \in 1..Len(ks) |-> RiskRequest(c, pe, ks[i])]

(***************************************************************************)
(* The provider.  calc_multi answers each request with one result map,     *)
(* keyed by the risk key it rebuilds from the request: the provider, an    *)
(* as-of pair, the request's parameters and scenario, and a measure.       *)
(* With bad = 1 the first item of the first map is an ErrorValue.          *)
(***************************************************************************)
ResultMap(provider, req) ==
    Flatten([i \in 1..Len(req.measures) |->
        Flatten([j \in 1..Len(req.positions) |->
            [k \in 1..Len(req.pricing_and_market_data_as_of) |->
                LET rk == [provider |-> provider,
                           date |-> req.pricing_and_market_data_as_of[k][1],
                           market |-> req.pricing_and_market_data_as_of[k][2],
                           params |-> req.parameters,
                           scenario |-> req.scenario,
                           risk_measure |-> req.measures[i]]
                IN [rk |-> rk, p |-> req.positions[j], v |-> ValueOf(rk, req.positions[j])]]])])

CalcMulti(provider, requests, bad) ==
    [i \in 1..Len(requests) |->
        LET rm == ResultMap(provider, requests[i])
        IN IF i = 1 /\ bad = 1 /\ rm # <<>>
           THEN [rm EXCEPT ![1].v = ErrorValue]
           ELSE rm]

(***************************************************************************)
(* __calc: starting the jobs of a flush.                                   *)
(***************************************************************************)
\* whether a request was built for the group of pending entry e
Covers(provider, req, e) ==
    /\ e.rk.provider = provider
    /\ Contains(req.positions, e.p)
    /\ Contains(req.measures, e.rk.risk_measure)
    /\ Contains(req.pricing_and_market_data_as_of, <<e.rk.date, e.rk.market>>)
    /\ req.scenario = e.rk.scenario
    /\ req.group_params = e.rk.params

\* lines 177-212: one run_requests per provider, on the pool if there is one.
\* A job keeps the pending items of its provider as the flush read them; its
\* requests_ argument is the requests list built from them.
NewJobs(c, pend, wave) ==
    LET prs == ProvidersIn(pend)
        pooled == Len(prs) > 1 \/ config[c].is_async
    IN [i \in 1..Len(prs) |->
           [c |-> c, wave |-> wave, provider |-> prs[i], pooled |-> pooled,
            st |-> "submitted", outcome |-> "none",
            read |-> [k \in 1..Len(ForProvider(pend, prs[i])) |->
                         [rk |-> ForProvider(pend, prs[i])[k].rk,
                          p |-> ForProvider(pend, prs[i])[k].p,
                          fut |-> ForProvider(pend, prs[i])[k].fut]],
            results |-> <<>>]]

JobRequests(job) == Requests(job.c, job.read, job.provider)

\* the requests lists of the jobs of one flush
RequestsOf(js) == <<>> \o [i \in 1..Len(js) |-> JobRequests(js[i])]

\* nd, kept beside each pending entry, counts the requests sent for it
TimesCoveredIn(js, reqs, e) ==
    Cardinality(UNION {{<<i, r>> : r \in {x \in 1..Len(reqs[i]) :
                                            Covers(js[i].provider, reqs[i][x], e)}} :
                       i \in 1..Len(js)})

TimesCovered(js, e) == TimesCoveredIn(js, RequestsOf(js), e)

MarkDispatched(pend, js) ==
    LET reqs == RequestsOf(js)
    IN [i \in 1..Len(pend) |-> [pend[i] EXCEPT !.nd = @ + TimesCoveredIn(js, reqs, pend[i])]]

(***************************************************************************)
(* run_requests, lines 160-167: the finally block, under the context lock. *)
(* st is [pend, ch, fs, ok]; items are the (key, value) pairs of results   *)
(* in iteration order.  A key that is not pending makes pop raise KeyError *)
(* and ends the block there.                                               *)
(***************************************************************************)
\* PricingFuture.set_result
SetResult(fs, f, value) == [fs EXCEPT ![f].val = value, ![f].sets = @ + 1]

RemoveAt(s, i) == SubSeq(s, 1, i - 1) \o SubSeq(s, i + 1, Len(s))

\* the finally block reading the Future with get instead of pop
HandleItemNoPop(c, st, item) ==
    LET i == PendingIndex(st.pend, item.rk, item.p)
    IN IF i = 0
       THEN [st EXCEPT !.ok = FALSE]
       ELSE [st EXCEPT !.fs = SetResult(st.fs, st.pend[i].fut, item.v)]

HandleItem(c, st, item) ==
    LET ch == IF config[c].use_cache THEN CachePut(st.ch, item.rk, item.p, item.v)
              ELSE st.ch
        i == PendingIndex(st.pend, item.rk, item.p)
    IN IF i = 0
       THEN [st EXCEPT !.ch = ch, !.ok = FALSE]
       ELSE [pend |-> RemoveAt(st.pend, i), ch |-> ch,
             fs |-> SetResult(st.fs, st.pend[i].fut, item.v), ok |-> TRUE,
             res |-> IF config[c].use_cache /\ item.v.kind = "value" /\ ~IsLive(item.rk.market)
                     THEN st.res \cup {[rk |-> item.rk, p |-> item.p]}
                     ELSE st.res]

RECURSIVE HandleResults(_, _, _)
HandleResults(c, st, items) ==
    IF items = <<>> \/ ~st.ok THEN st
    ELSE HandleResults(c, HandleItem(c, st, Head(items)), Tail(items))

(***************************************************************************)
(* The states after construction.  Two contexts exist; Configurations are  *)
(* the pairs of constructor arguments a behaviour may start from.          *)
(***************************************************************************)
TwinContexts ==
    [c1 |-> Context(FALSE, TRUE, 1, "Close", "x"), c2 |-> Context(FALSE, FALSE, 1, "Close", "x")]

AsyncContext ==
    [c1 |-> Context(FALSE, TRUE, 1, "Close", "x"), c2 |-> Context(TRUE, TRUE, 1, "Live", "y")]

TwoDates ==
    [c1 |-> Context(FALSE, TRUE, 1, "Close", "x"), c2 |-> Context(FALSE, FALSE, 2, "Close", "x")]

Configurations == {TwinContexts, AsyncContext}

NotWaiting == [kind |-> "none", c |-> "none", wave |-> 0]

NoFuture == [fut |-> 0, how |-> "none"]

InitWith(cfg) ==
    /\ config = cfg
    /\ scenarioPath = <<>>
    /\ path = <<>>
    /\ pending = [c \in Ctx |-> <<>>]
    /\ cache = [p \in Priceables |-> {}]
    /\ futs = <<>>
    /\ jobs = <<>>
    /\ nwaves = 0
    /\ waiting = NotWaiting
    /\ ret = NoFuture
    /\ surfaced = "none"
    /\ resolvedOk = {}
    /\ lastPut = [op |-> "none"]

Init == \E cfg \in Configurations : InitWith(cfg)

(***************************************************************************)
(* The operations of the calling thread.                                   *)
(***************************************************************************)
Idle == waiting.kind = "none"

\* __calc called on context c, lines 145-215 up to the submission of the jobs;
\* base is the pending dicts as the caller's operation leaves them.  A
\* synchronous flush keeps the caller until its jobs are over (the inline call,
\* or shutdown(wait=True)).
StartFlush(c, base, kind) ==
    LET js == NewJobs(c, base[c], nwaves + 1)
    IN /\ base[c] # <<>> => nwaves < MaxWaves
       /\ jobs' = jobs \o js
       /\ nwaves' = IF js = <<>> THEN nwaves ELSE nwaves + 1
       /\ pending' = [base EXCEPT ![c] = MarkDispatched(base[c], js)]
       /\ waiting' = IF js # <<>> /\ ~config[c].is_async
                     THEN [kind |-> kind, c |-> c, wave |-> nwaves + 1]
                     ELSE NotWaiting

\* ContextBase.__enter__
Enter(c) ==
    /\ Idle
    /\ ~IsEntered(c)
    /\ path' = Append(path, c)
    /\ surfaced' = "none"
    /\ ret' = NoFuture
    /\ UNCHANGED <<config, scenarioPath, pending, cache, futs, jobs, nwaves, waiting,
                   resolvedOk, lastPut>>

\* _on_exit that calls __calc before it raises the exception again
OnExitFlushThenRaise(c) ==
    /\ StartFlush(c, pending, "exit")
    /\ surfaced' = "UserException"
    /\ path' = IF waiting'.kind = "none" THEN SubSeq(path, 1, Len(path) - 1) ELSE path

\* _on_exit with exc_val set: the exception is raised again, __calc is not called
OnExitRaise(c) ==
    /\ surfaced' = "UserException"
    /\ path' = SubSeq(path, 1, Len(path) - 1)
    /\ UNCHANGED <<pending, jobs, nwaves, waiting>>

\* _on_exit without exception: __calc.  The context leaves the path when
\* _on_exit is over: at once when nothing is waited for.
OnExitFlush(c) ==
    /\ StartFlush(c, pending, "exit")
    /\ surfaced' = "none"
    /\ path' = IF waiting'.kind = "none" THEN SubSeq(path, 1, Len(path) - 1) ELSE path

\* ContextBase.__exit__ around _on_exit, lines 139-143
Exit(c, exc) ==
    /\ Idle
    /\ path # <<>> /\ path[Len(path)] = c
    /\ IF exc THEN OnExitRaise(c) ELSE OnExitFlush(c)
    /\ ret' = NoFuture
    /\ UNCHANGED <<config, scenarioPath, cache, futs, resolvedOk, lastPut>>

\* Register that never consults the cache (line 307 without the lookup)
RegisterNoCache(c, priceable, risk_measure) ==
    LET a == ActiveContext(c)
        risk_key == RiskKey(c, risk_measure, ProviderOf(priceable))
        i == PendingIndex(pending[a], risk_key, priceable)
        f == Len(futs) + 1
    IN IF i # 0
       THEN [pend |-> pending[a], fs |-> futs, future |-> pending[a][i].fut, how |-> "pending"]
       ELSE [pend |-> Append(pending[a], [rk |-> risk_key, p |-> priceable, fut |-> f, nd |-> 0]),
             fs |-> Append(futs, [val |-> Unset, sets |-> 0]),
             future |-> f, how |-> "new"]

\* Register that consults the cache whatever use_cache says
RegisterAlwaysCache(c, priceable, risk_measure) ==
    LET a == ActiveContext(c)
        risk_key == RiskKey(c, risk_measure, ProviderOf(priceable))
        i == PendingIndex(pending[a], risk_key, priceable)
        cached_result == CacheGet(cache, risk_key, priceable)
        f == Len(futs) + 1
    IN IF i # 0
       THEN [pend |-> pending[a], fs |-> futs, future |-> pending[a][i].fut, how |-> "pending"]
       ELSE IF cached_result # NoResult
       THEN [pend |-> pending[a],
             fs |-> Append(futs, [val |-> cached_result, sets |-> 1]),
             future |-> f, how |-> "cached"]
       ELSE [pend |-> Append(pending[a], [rk |-> risk_key, p |-> priceable, fut |-> f, nd |-> 0]),
             fs |-> Append(futs, [val |-> Unset, sets |-> 0]),
             future |-> f, how |-> "new"]

\* Register without the lookup of line 303
RegisterNoLookup(c, priceable, risk_measure) ==
    LET a == ActiveContext(c)
        risk_key == RiskKey(c, risk_measure, ProviderOf(priceable))
        f == Len(futs) + 1
    IN [pend |-> Append(pending[a], [rk |-> risk_key, p |-> priceable, fut |-> f, nd |-> 0]),
        fs |-> Append(futs, [val |-> Unset, sets |-> 0]),
        future |-> f, how |-> "new"]

\* what calc leaves in the pending dict of the active context, with the future
\* it returns: lines 301-312
Register(c, priceable, risk_measure) ==
    LET a == ActiveContext(c)
        risk_key == RiskKey(c, risk_measure, ProviderOf(priceable))
        i == PendingIndex(pending[a], risk_key, priceable)
        cached_result == IF config[c].use_cache THEN CacheGet(cache, risk_key, priceable)
                         ELSE NoResult
        f == Len(futs) + 1
    IN IF i # 0
       THEN [pend |-> pending[a], fs |-> futs, future |-> pending[a][i].fut, how |-> "pending"]
       ELSE IF cached_result # NoResult
       THEN [pend |-> pending[a],
             fs |-> Append(futs, [val |-> cached_result, sets |-> 1]),
             future |-> f, how |-> "cached"]
       ELSE [pend |-> Append(pending[a], [rk |-> risk_key, p |-> priceable, fut |-> f, nd |-> 0]),
             fs |-> Append(futs, [val |-> Unset, sets |-> 0]),
             future |-> f, how |-> "new"]

\* PricingContext.calc, lines 301-317
Calc(c, priceable, risk_measure) ==
    LET a == ActiveContext(c)
        r == Register(c, priceable, risk_measure)
        after == [pending EXCEPT ![a] = r.pend]
    IN /\ Idle
       /\ futs' = r.fs
       /\ ret' = [fut |-> r.future, how |-> r.how]
       /\ surfaced' = "none"
       /\ IF ~(IsEntered(c) \/ config[c].is_async)
          THEN StartFlush(c, after, "calc")
          ELSE /\ pending' = after
               /\ UNCHANGED <<jobs, nwaves, waiting>>
       /\ UNCHANGED <<config, scenarioPath, path, cache, resolvedOk, lastPut>>

\* PricingCache.drop, called when an instrument changes
Drop(priceable) ==
    /\ Idle
    /\ cache' = CacheDrop(cache, priceable)
    /\ resolvedOk' = {x \in resolvedOk : x.p # priceable}
    /\ UNCHANGED <<config, scenarioPath, path, pending, futs, jobs, nwaves, waiting, ret,
                   surfaced, lastPut>>

(***************************************************************************)
(* The jobs.  What calc_multi returns depends on the requests alone, so a  *)
(* run_requests whose provider call succeeds is one step, taken when its   *)
(* finally block runs.  One whose provider call raises reads the pending   *)
(* dict at line 159, before it waits for the lock: two steps.              *)
(***************************************************************************)
Finished(j) == jobs[j].st \in {"done", "KeyError"}

\* line 159 reads self.__pending without the lock: another thread that changes
\* the dict meanwhile (a job of the same context in its finally block, or the
\* calling thread registering into it) makes the comprehension raise
\* RuntimeError, and results stays empty
CanRace(j) ==
    \/ \E k \in 1..Len(jobs) : k # j /\ jobs[k].c = jobs[j].c /\ ~Finished(k)
    \/ Idle /\ Len(futs) < MaxFutures
            /\ (IF path = <<>> THEN TRUE ELSE path[Len(path)] = jobs[j].c)

\* line 159: the provider's exception for every key pending in the context
ErrorResults(pend) ==
    << [i \in 1..Len(pend) |-> [rk |-> pend[i].rk, p |-> pend[i].p, v |-> ProviderError]] >>

\* lines 160-167 with the given results.  A job nobody waits for is forgotten
\* when it is over; the jobs of a synchronous flush are kept until __calc returns.
Finally(j, outcome, results) ==
    LET c == jobs[j].c
        st == HandleResults(c, [pend |-> pending[c], ch |-> cache, fs |-> futs, ok |-> TRUE,
                                res |-> resolvedOk],
                            Flatten(results))
    IN /\ pending' = [pending EXCEPT ![c] = st.pend]
       /\ cache' = st.ch
       /\ futs' = st.fs
       /\ resolvedOk' = st.res
       /\ jobs' = IF jobs[j].wave = waiting.wave
                  THEN [jobs EXCEPT ![j].st = IF st.ok THEN "done" ELSE "KeyError",
                                    ![j].outcome = outcome,
                                    ![j].results = <<>>]
                  ELSE RemoveAt(jobs, j)
       /\ UNCHANGED <<config, scenarioPath, path, nwaves, waiting, ret, surfaced, lastPut>>

\* run_requests whose provider call returns: lines 152-157, then 160-167
RunRequests(j, bad) ==
    /\ jobs[j].st = "submitted"
    /\ Finally(j, "ok", CalcMulti(jobs[j].provider, JobRequests(jobs[j]), bad))

\* run_requests whose provider call raises: lines 152-159
ProviderRaises(j) ==
    /\ jobs[j].st = "submitted"
    /\ jobs' = [jobs EXCEPT ![j].st = "returned",
                            ![j].outcome = "raised",
                            ![j].results = ErrorResults(pending[jobs[j].c])]
    /\ UNCHANGED <<config, scenarioPath, path, pending, cache, futs, nwaves, waiting,
                   ret, surfaced, resolvedOk, lastPut>>

\* ... and then its finally block, lines 160-167
HandleError(j) ==
    /\ jobs[j].st = "returned"
    /\ Finally(j, "raised", jobs[j].results)

\* run_requests whose provider call raises and whose line 159 raises in turn:
\* the finally block finds results empty
ProviderRaisesRaced(j) ==
    /\ jobs[j].st = "submitted"
    /\ CanRace(j)
    /\ Finally(j, "raced", <<>>)

\* the synchronous __calc returns: the inline run_requests is over, or
\* shutdown(wait=True) has joined the workers.  An exception of the inline call
\* reaches the caller; one of a worker stays in the pool's future.
FlushReturn ==
    LET mine == {j \in 1..Len(jobs) : jobs[j].wave = waiting.wave}
    IN /\ ~Idle
       /\ \A j \in mine : Finished(j)
       /\ waiting' = NotWaiting
       /\ surfaced' = IF \E j \in mine : ~jobs[j].pooled /\ jobs[j].st = "KeyError"
                      THEN "KeyError" ELSE "none"
       /\ path' = IF waiting.kind = "exit" THEN SubSeq(path, 1, Len(path) - 1) ELSE path
       /\ jobs' = SelectSeq(jobs, LAMBDA job : job.wave # waiting.wave)
       /\ UNCHANGED <<config, scenarioPath, pending, cache, futs, nwaves, ret, resolvedOk,
                      lastPut>>

(***************************************************************************)
(* The specification.  In Spec the instruments are p1 (provider A) and p3   *)
(* (provider B), priced for one measure.                                   *)
(***************************************************************************)
SpecPriceables == {"p1", "p3"}
SpecMeasures == {1}

CallerStep ==
    \/ \E c \in Ctx : Enter(c)
    \/ \E c \in Ctx, exc \in BOOLEAN : Exit(c, exc)
    \/ \E c \in Ctx, p \in SpecPriceables, m \in SpecMeasures :
           Calc(c, p, m) /\ Len(futs') <= MaxFutures
    \/ \E p \in SpecPriceables : Drop(p)

JobStep ==
    \/ \E j \in 1..Len(jobs), bad \in {0, 1} : RunRequests(j, bad)
    \/ \E j \in 1..Len(jobs) : ProviderRaises(j)
    \/ \E j \in 1..Len(jobs) : HandleError(j)
    \/ \E j \in 1..Len(jobs) : ProviderRaisesRaced(j)
    \/ FlushReturn

Next == CallerStep \/ JobStep

Spec == Init /\ [][Next]_vars

(***************************************************************************)
(* Properties.                                                             *)
(***************************************************************************)
CalcInputs == Ctx \X SpecPriceables \X SpecMeasures

\* the jobs a step starts: a flush appends them
Started == SubSeq(jobs', Len(jobs) + 1, Len(jobs'))

SamePair(e1, e2) == e1.rk = e2.rk /\ e1.p = e2.p

\* C1: Deduplication.  A calc for a pair that is pending in the active context
\* returns the pending entry's Future and creates none; the pending dict never
\* holds two entries for one pair; and the requests a flush sends cover every
\* entry it read exactly once.
C1_Deduplication ==
    [][ /\ \A x \in CalcInputs :
            LET a == ActiveContext(x[1])
                rk == RiskKey(x[1], x[3], ProviderOf(x[2]))
                i == PendingIndex(pending[a], rk, x[2])
            IN (Calc(x[1], x[2], x[3]) /\ i # 0) =>
                  /\ ret'.fut = pending[a][i].fut
                  /\ futs' = futs
                  /\ Len(pending'[a]) = Len(pending[a])
        /\ \A c \in Ctx : \A i, k \in 1..Len(pending'[c]) :
               SamePair(pending'[c][i], pending'[c][k]) => i = k
        /\ nwaves' # nwaves =>
               \A i \in 1..Len(pending'[Started[1].c]) :
                   TimesCovered(Started, pending'[Started[1].c][i]) = 1
      ]_vars

\* C1 witness: a second calc was answered with the pending Future, and the
\* flush has sent its one request for it
C1_Witness ==
    /\ ret.how = "pending"
    /\ \E c \in Ctx : \E i \in 1..Len(pending[c]) :
           pending[c][i].fut = ret.fut /\ pending[c][i].nd = 1

\* the jobs under way that were started for the pending entry of future f
InFlight(f) ==
    {j \in 1..Len(jobs) : ~Finished(j) /\ \E i \in 1..Len(jobs[j].read) : jobs[j].read[i].fut = f}

\* C2: at most one in-flight computation per (instrument, risk-key) pair: no
\* pending entry is in the requests of two dispatches that are both under way.
C2_AtMostOneInFlight ==
    \A c \in Ctx : \A i \in 1..Len(pending[c]) : Cardinality(InFlight(pending[c][i].fut)) <= 1

\* C3: no Future is resolved twice: set_result has been called at most once on
\* every Future, and never on one that is in a pending dict.
C3_ResolvedOnce ==
    /\ \A f \in 1..Len(futs) : futs[f].sets <= 1
    /\ \A c \in Ctx : \A i \in 1..Len(pending[c]) : futs[pending[c][i].fut].sets = 0

\* C3 witness: a job met a key that another job had already resolved and
\* removed; the Future it had been started for was resolved once
C3_Witness ==
    \E j \in 1..Len(jobs) :
        /\ jobs[j].st = "KeyError"
        /\ \E i \in 1..Len(jobs[j].read) : futs[jobs[j].read[i].fut].sets = 1

\* the jobs of the flush the caller waits for are over, none of them lost its
\* results to the unlocked read of line 159, and the flushing context's own
\* parameters are those of every key it read (so that the provider's keys are
\* the pending keys)
WaveOver ==
    /\ ~Idle
    /\ \A j \in 1..Len(jobs) :
           jobs[j].wave = waiting.wave =>
               /\ Finished(j)
               /\ jobs[j].outcome \in {"ok", "raised"}
               /\ \A i \in 1..Len(jobs[j].read) :
                      jobs[j].read[i].rk.params = Parameters(jobs[j].c)

\* C4: nothing is silently dropped: when the jobs of a flush are over, every
\* entry the flush read is resolved, with a value or an error, and is no
\* longer pending.
C4_NothingDropped ==
    WaveOver =>
        \A j \in 1..Len(jobs) : \A i \in 1..Len(jobs[j].read) :
            jobs[j].wave = waiting.wave =>
                /\ futs[jobs[j].read[i].fut].val # Unset
                /\ PendingIndex(pending[jobs[j].c], jobs[j].read[i].rk, jobs[j].read[i].p) = 0

\* C5: partial failure isolation: when the two jobs of one flush are over, the
\* call to provider A having raised and the call to provider B having
\* returned, every Future read for A holds A's exception and every Future read
\* for B holds a result of B for its pair.
C5_PartialFailureIsolation ==
    WaveOver =>
        \A ja, jb \in 1..Len(jobs) :
            ( /\ jobs[ja].wave = waiting.wave /\ jobs[jb].wave = waiting.wave
              /\ jobs[ja].outcome = "raised" /\ jobs[jb].outcome = "ok" ) =>
                /\ \A i \in 1..Len(jobs[ja].read) :
                       futs[jobs[ja].read[i].fut].val = ProviderError
                /\ \A i \in 1..Len(jobs[jb].read) :
                       futs[jobs[jb].read[i].fut].val \in
                           {ValueOf(jobs[jb].read[i].rk, jobs[jb].read[i].p), ErrorValue}

\* C6: the cache never holds an error outcome or a live-market entry.
C6_CacheHoldsNoError ==
    \A p \in Priceables : \A it \in cache[p] :
        /\ it.v.kind \notin {"ErrorValue", "Exception"}
        /\ ~IsLive(it.rk.market)

CacheKeys ==
    {[RiskKey("c1", m, "A") EXCEPT !.market = mk] : m \in Measures, mk \in Markets}

CacheResults == {[kind |-> "value", p |-> "p1", m |-> m, d |-> 1] : m \in Measures}
                    \cup {ErrorValue}

notCache == <<config, scenarioPath, path, pending, futs, jobs, nwaves, waiting,
              ret, surfaced, resolvedOk>>

\* PricingCache.put(risk_key, priceable, result); PricingCache.get(risk_key, priceable)
PutThenGet(risk_key, priceable, result) ==
    /\ cache' = CachePut(cache, risk_key, priceable, result)
    /\ lastPut' = [op |-> "put", rk |-> risk_key, p |-> priceable, result |-> result,
                   before |-> CacheGet(cache, risk_key, priceable),
                   got |-> CacheGet(cache', risk_key, priceable),
                   kept |-> (cache' = cache)]
    /\ UNCHANGED notCache

\* PricingCache.drop(priceable)
DropCached(priceable) ==
    /\ cache' = CacheDrop(cache, priceable)
    /\ lastPut' = [op |-> "drop"]
    /\ UNCHANGED notCache

\* PricingCache.clear()
ClearCache ==
    /\ cache' = CacheClear(cache)
    /\ lastPut' = [op |-> "clear"]
    /\ UNCHANGED notCache

CacheNext ==
    \/ \E k \in CacheKeys, p \in {"p1", "p2"}, r \in CacheResults : PutThenGet(k, p, r)
    \/ \E p \in {"p1", "p2"} : DropCached(p)
    \/ ClearCache

CacheSpec == Init /\ [][CacheNext]_vars

RejectedPut ==
    /\ lastPut.op = "put"
    /\ IsErrorValue(lastPut.result) \/ IsLive(lastPut.rk.market)

\* C7 as stated: never cache errors or live markets: for a result that is an
\* error value, or a key whose market is live, get right after put returns
\* absent, from every prior state of the cache.
C7_GetAfterPutAbsent == RejectedPut => lastPut.got = NoResult

\* C7 as the code has it: a put of an error value, or under a live key, stores
\* nothing and leaves the cache as it was: get right after it returns what get
\* returned right before it, never an error value, and absent under a live key.
C7_RejectedPutKeepsCache ==
    RejectedPut =>
        /\ lastPut.kept
        /\ lastPut.got = lastPut.before
        /\ ~IsErrorValue(lastPut.got)
        /\ IsLive(lastPut.rk.market) => lastPut.got = NoResult

\* C7 witness: an error value was put for a pair that had a cached value, and
\* get still returns that value
C7_Witness ==
    /\ lastPut.op = "put"
    /\ IsErrorValue(lastPut.result)
    /\ lastPut.before.kind = "value"
    /\ lastPut.got = lastPut.before

(***************************************************************************)
(* Grouping on its own: the calcs of two contexts that differ in the       *)
(* pricing date, registered in one entered context in every order, and     *)
(* the flush of its exit.                                                  *)
(***************************************************************************)
GroupPriceables == {"p1", "p2"}

GroupInit == InitWith(TwoDates)

GroupNext ==
    \/ Enter("c1")
    \/ \E c \in Ctx, p \in GroupPriceables :
           Calc(c, p, 1) /\ Len(futs') <= MaxGroupPending
    \/ Exit("c1", FALSE)

GroupSpec == GroupInit /\ [][GroupNext]_vars

\* the keys a job read are a grid: each of its priceables under each of its
\* (date, market) pairs, with one provider, parameters, scenario and measure
\* set throughout
DatesMarketsOf(read) == {<<read[i].rk.date, read[i].rk.market>> : i \in 1..Len(read)}

PositionsOf(read) == {read[i].p : i \in 1..Len(read)}

IsGrid(read) ==
    /\ read # <<>>
    /\ \A i, j \in 1..Len(read) :
           /\ read[i].rk.params = read[j].rk.params
           /\ read[i].rk.scenario = read[j].rk.scenario
           /\ read[i].rk.risk_measure = read[j].rk.risk_measure
    /\ \A p \in PositionsOf(read) : \A dm \in DatesMarketsOf(read) :
           \E i \in 1..Len(read) :
               read[i].p = p /\ <<read[i].rk.date, read[i].rk.market>> = dm

\* C9: grouping minimality: a flush whose pending keys are N priceables under
\* each of M (date, market) pairs emits exactly one request, with all N
\* positions and the M as-of pairs sorted by (date, market), whatever the
\* order of the calcs.
C9_GroupingMinimality ==
    \A j \in 1..Len(jobs) :
        IsGrid(jobs[j].read) =>
            LET requests == JobRequests(jobs[j])
            IN /\ Len(requests) = 1
               /\ Range(requests[1].positions) = PositionsOf(jobs[j].read)
               /\ Len(requests[1].positions) = Cardinality(PositionsOf(jobs[j].read))
               /\ requests[1].pricing_and_market_data_as_of =
                      SortedDatesMarkets(DatesMarketsOf(jobs[j].read))


\* C11: synchronous calc blocks until the result is available: when calc on a
\* context that is neither entered nor asynchronous returns (at once when its
\* flush found nothing to send, else when the flush returns), the Future it
\* returns is resolved, whichever context is the active one.
C11_SyncCalcResolved ==
    [][ /\ \A x \in CalcInputs :
            ( /\ Calc(x[1], x[2], x[3])
              /\ ~IsEntered(x[1]) /\ ~config[x[1]].is_async
              /\ waiting'.kind = "none" ) =>
                  futs'[ret'.fut].val # Unset
        /\ (FlushReturn /\ waiting.kind = "calc") => futs'[ret'.fut].val # Unset
      ]_vars


\* C12: a synchronous flush completes its wave: when the flush of a context
\* that is not asynchronous returns, every entry it read is resolved and no
\* longer pending, also with two providers on the pool of which one raises.
C12_SyncFlushCompletesWave ==
    [][ (FlushReturn /\ WaveOver) =>
            \A j \in 1..Len(jobs) : \A i \in 1..Len(jobs[j].read) :
                jobs[j].wave = waiting.wave =>
                    /\ futs'[jobs[j].read[i].fut].val # Unset
                    /\ \A k \in 1..Len(pending'[jobs[j].c]) :
                           pending'[jobs[j].c][k].fut # jobs[j].read[i].fut
      ]_vars


\* C13: clear() discards all entries: after PricingCache.clear(), get returns
\* absent for every RiskKey and every priceable, whatever was put before.
C13_ClearDiscardsAll ==
    lastPut.op = "clear" =>
        \A p \in Priceables : \A k \in CacheKeys : CacheGet(cache, k, p) = NoResult


\* the step is the finally block of job j
JobEnds(j) ==
    \/ \E bad \in {0, 1} : RunRequests(j, bad)
    \/ HandleError(j)
    \/ ProviderRaisesRaced(j)

\* C14: flush waves are isolated: the finally block of a job neither resolves
\* nor removes an entry of its context that no flush has read yet (one
\* registered by a calc after the job's flush read the pending dict; no request
\* has been sent for it): it stays pending, unresolved.
C14_WavesIsolated ==
    [][ \A j \in 1..Len(jobs) :
            JobEnds(j) =>
                \A i \in 1..Len(pending[jobs[j].c]) :
                    LET e == pending[jobs[j].c][i]
                    IN e.nd = 0 =>
                           /\ futs'[e.fut].val = Unset
                           /\ \E k \in 1..Len(pending'[jobs[j].c]) :
                                  pending'[jobs[j].c][k].fut = e.fut
      ]_vars


\* the entries of a pending dict without the count of requests sent
Entries(pend) == [i \in 1..Len(pend) |-> [rk |-> pend[i].rk, p |-> pend[i].p, fut |-> pend[i].fut]]

C16_RequestCarriesGroupParameters ==
    \A j \in 1..Len(jobs) :
        LET requests == JobRequests(jobs[j])
        IN \A r \in 1..Len(requests) : \A i \in 1..Len(jobs[j].read) :
               Covers(jobs[j].provider, requests[r], jobs[j].read[i]) =>
                   /\ requests[r].parameters = jobs[j].read[i].rk.params
                   /\ requests[r].scenario = jobs[j].read[i].rk.scenario


(***************************************************************************)
(* Grouping over measures as well as dates: the calcs of two contexts that *)
(* differ in the pricing date, for two priceables and two measures, in     *)
(* every order, and the flush that reads them.                             *)
(***************************************************************************)
CoverInit == InitWith(TwoDates)

CoverNext ==
    \/ Enter("c1")
    \/ \E c \in Ctx, p \in GroupPriceables, m \in Measures :
           Calc(c, p, m) /\ Len(futs') <= MaxCoverPending
    \/ Exit("c1", FALSE)

CoverSpec == CoverInit /\ [][CoverNext]_vars

\* C17: risk-measure order independence: two priceables a job read under one
\* (params, scenario, date, market) key with the same set of measures are
\* positions of one request, whose measures are that set as one sorted tuple,
\* whatever the order in which the measures were registered for each.
C17_MeasureOrderIndependence ==
    \A j \in 1..Len(jobs) :
        LET read == jobs[j].read
            requests == JobRequests(jobs[j])
        IN \A a, b \in 1..Len(read) :
               ( /\ GroupKey(read[a]) = GroupKey(read[b])
                 /\ {read[i].rk.risk_measure : i \in {x \in 1..Len(read) :
                         GroupKey(read[x]) = GroupKey(read[a]) /\ read[x].p = read[a].p}}
                    = {read[i].rk.risk_measure : i \in {x \in 1..Len(read) :
                         GroupKey(read[x]) = GroupKey(read[b]) /\ read[x].p = read[b].p}} ) =>
                   \E r \in 1..Len(requests) :
                       /\ Covers(jobs[j].provider, requests[r], read[a])
                       /\ Covers(jobs[j].provider, requests[r], read[b])
                       /\ \A i \in 1..Len(requests[r].measures) - 1 :
                              requests[r].measures[i] < requests[r].measures[i + 1]
                       /\ \A q \in 1..Len(requests) :
                              Covers(jobs[j].provider, requests[q], read[a]) => q = r

\* C17 witness: a flush read measure 1 then 2 for p1 and 2 then 1 for p2 and
\* sent one request for the four entries
C17_Witness ==
    \E j \in 1..Len(jobs) :
        LET read == jobs[j].read
        IN /\ Len(read) = 4
           /\ read[1].p = "p1" /\ read[1].rk.risk_measure = 1
           /\ read[2].p = "p2" /\ read[2].rk.risk_measure = 2
           /\ read[3].p = "p1" /\ read[3].rk.risk_measure = 2
           /\ read[4].p = "p2" /\ read[4].rk.risk_measure = 1
           /\ \A i \in 1..4 : GroupKey(read[i]) = GroupKey(read[1])
           /\ Len(JobRequests(jobs[j])) = 1
           /\ JobRequests(jobs[j])[1].measures = <<1, 2>>


\* the (priceable, RiskKey) combinations a request spans: its positions, its
\* measures and its as-of pairs, under the params and scenario of its group
Span(provider, req) ==
    {[p |-> req.positions[a],
      rk |-> [provider |-> provider,
              date |-> req.pricing_and_market_data_as_of[d][1],
              market |-> req.pricing_and_market_data_as_of[d][2],
              params |-> req.group_params, scenario |-> req.scenario,
              risk_measure |-> req.measures[b]]] :
        a \in 1..Len(req.positions), b \in 1..Len(req.measures),
        d \in 1..Len(req.pricing_and_market_data_as_of)}

\* C19: grouping is an exact cover: the combinations spanned by the requests of
\* a job together are the entries the job read, none missing and none that was
\* not requested; no combination is spanned by two requests, or twice by one.
C19_ExactCover ==
    \A j \in 1..Len(jobs) :
        LET requests == JobRequests(jobs[j])
            entries == {[p |-> jobs[j].read[i].p, rk |-> jobs[j].read[i].rk] :
                           i \in 1..Len(jobs[j].read)}
        IN /\ UNION {Span(jobs[j].provider, requests[r]) : r \in 1..Len(requests)} = entries
           /\ \A r, q \in 1..Len(requests) :
                  r # q => Span(jobs[j].provider, requests[r])
                               \cap Span(jobs[j].provider, requests[q]) = {}
           /\ \A r \in 1..Len(requests) :
                  Cardinality(Span(jobs[j].provider, requests[r])) =
                      Len(requests[r].positions) * Len(requests[r].measures)
                          * Len(requests[r].pricing_and_market_data_as_of)

\* C19 witness: a flush read three entries and sent them as two requests, one
\* of which spans two entries
C19_Witness ==
    \E j \in 1..Len(jobs) :
        LET requests == JobRequests(jobs[j])
        IN /\ Len(jobs[j].read) = 3
           /\ Len(requests) = 2
           /\ \E r \in 1..2 : Cardinality(Span(jobs[j].provider, requests[r])) = 2


\* C18: caching is opt-in: a calc invoked on a context whose use_cache is off
\* never returns a Future completed from the cache (its Future is the one of a
\* pending entry of the active context, new or reused), and the finally block
\* of a job of such a context leaves the cache as it was.
C18_CachingOptIn ==
    [][ /\ \A x \in CalcInputs :
               (Calc(x[1], x[2], x[3]) /\ ~config[x[1]].use_cache) =>
                   /\ ret'.how \in {"new", "pending"}
                   /\ \E i \in 1..Len(pending'[ActiveContext(x[1])]) :
                          /\ pending'[ActiveContext(x[1])][i].fut = ret'.fut
                          /\ pending'[ActiveContext(x[1])][i].p = x[2]
                   /\ cache' = cache
        /\ cache' # cache =>
               \A j \in 1..Len(jobs) : JobEnds(j) => config[jobs[j].c].use_cache
      ]_vars

\* C18 witness: the cache holds a value for a pair, and a calc on c2, whose
\* use_cache is off, has registered a new pending entry for that pair
C18_Witness ==
    /\ path = <<>>
    /\ ~config["c2"].use_cache
    /\ ret.how = "new"
    /\ \E i \in 1..Len(pending["c2"]) :
           /\ pending["c2"][i].fut = ret.fut
           /\ CacheGet(cache, pending["c2"][i].rk, pending["c2"][i].p) # NoResult


\* C20: result handling never meets a missing pending key: the finally block
\* of a job whose provider call raised handles the error map built from the
\* pending dict, and does not end with the KeyError of a pop of a pair that is
\* no longer in the pending dict of its context, whatever the other jobs of
\* the flush did in between.
C20_NoMissingPendingKey ==
    \A j \in 1..Len(jobs) : jobs[j].outcome = "raised" => jobs[j].st # "KeyError"

====
